---- MODULE Spec2Model ----
(***************************************************************************)
(* StudyMania (src/index.tsx): a browser study assistant.  The module      *)
(* models the event handlers of the page as atomic actions (the page is    *)
(* single-threaded; a handler runs to its next await), the awaits as       *)
(* separate continuation actions, and the external services (the model     *)
(* API, IndexedDB, FileReader, timers) as nondeterministic completions.    *)
(*                                                                         *)
(* Strings that the code normalises (quiz options and answers, the         *)
(* question box) are sequences of one-character strings, so that trim()    *)
(* and toLowerCase() are computed and not assumed.                         *)
(*                                                                         *)
(* A control can be clicked when it is not disabled and is displayed: the  *)
(* element and the sections that contain it do not carry the class         *)
(* 'hidden'.  The containment used is the one the handlers rely on when    *)
(* they show and hide the sections.                                        *)
(***************************************************************************)
EXTENDS Integers, Sequences, FiniteSets, TLC

\* ---------------------------------------------------------------- bounds
MaxQuizLen == 2      \* longest question list the service returns
MaxDeck    == 2      \* longest flashcard list the service returns
MaxReq     == 2      \* gateway requests issued in one behaviour
MaxChunks  == 2      \* chunks of one answer stream
MaxOps     == 2      \* store operations (upload, clear) started by the user
MaxTime    == 2      \* last value of the millisecond clock

\* the sizes the prompts and the schema descriptions ask for
QuizSize == 5
DeckSize == 10

None == "none"

\* ---------------------------------------------------------------- strings
Space == " "

LowerChar(c) == IF c = "A" THEN "a" ELSE IF c = "B" THEN "b" ELSE c

ToLowerCase(s) == [i \in 1..Len(s) |-> LowerChar(s[i])]

RECURSIVE TrimStart(_)
TrimStart(s) == IF s # <<>> /\ Head(s) = Space THEN TrimStart(Tail(s)) ELSE s

RECURSIVE TrimEnd(_)
TrimEnd(s) ==
    IF s # <<>> /\ s[Len(s)] = Space THEN TrimEnd(SubSeq(s, 1, Len(s) - 1)) ELSE s

Trim(s) == TrimEnd(TrimStart(s))

\* ------------------------------------------------------------- quiz data
\* What the service may put in a question: the answer can differ from its
\* option in case and surrounding blanks.
QuestionPool ==
    { [question |-> "q1",
       options |-> << <<"A", " ">>, <<"b">>, <<"B">> >>,
       correctAnswer |-> <<" ", "a">>],
      [question |-> "q2",
       options |-> << <<"a">>, <<"b">> >>,
       correctAnswer |-> <<"b">>] }

SeqsUpTo(S, n) == UNION { [1..k -> S] : k \in 0..n }

QuizBatches == SeqsUpTo(QuestionPool, MaxQuizLen)

\* quizQuestions[currentQuestionIndex] when the index is out of range
UndefinedQuestion == [question |-> "undefined", options |-> <<>>, correctAnswer |-> <<>>]

\* How a generateContent call of the quiz ends: the promise rejects, or it
\* resolves with text that JSON.parse refuses ("badjson"), with a document
\* without a 'questions' list ("nolist"), or with a list of questions.
QuizResponses ==
    { [kind |-> k, questions |-> <<>>] : k \in {"reject", "badjson", "nolist"} }
    \cup { [kind |-> "ok", questions |-> b] : b \in QuizBatches }

Deck(n) == [i \in 1..n |-> [term |-> i, definition |-> i]]

GameResponses ==
    { [kind |-> k, flashcards |-> <<>>] : k \in {"reject", "badjson", "nolist"} }
    \cup { [kind |-> "ok", flashcards |-> Deck(n)] : n \in 0..MaxDeck }

\* ------------------------------------------------------------- materials
NoFile == [id |-> 0 - 1, timestamp |-> 0 - 1, content |-> "none"]

Files == {"f1", "f2"}

\* --------------------------------------------------------------- elements
Sections ==
    { "qaSection", "answerSection", "quizSection", "resultsSection", "gameSection",
      "quizLoadingContainer", "quizContentContainer", "gameLoadingContainer",
      "gameContainer", "gameResultsSection", "reviewMistakesBtn", "nextQuestionBtn",
      "gameControls", "scoreDisplayEl" }

Controls == { "askBtn", "startQuizBtn", "startGameBtn", "questionInput" }

StartControls == { "askBtn", "startQuizBtn", "startGameBtn" }

Parent(e) ==
    CASE e \in {"quizLoadingContainer", "quizContentContainer"} -> "quizSection"
      [] e \in {"nextQuestionBtn", "scoreDisplayEl"} -> "quizContentContainer"
      [] e = "reviewMistakesBtn" -> "resultsSection"
      [] e \in {"gameLoadingContainer", "gameContainer", "gameResultsSection"} -> "gameSection"
      [] e = "gameControls" -> "gameContainer"
      [] OTHER -> None

SetClass(h, toHide, toShow) ==
    [e \in DOMAIN h |-> IF e \in toHide THEN TRUE ELSE IF e \in toShow THEN FALSE ELSE h[e]]

SetDisabled(d, S, v) == [c \in DOMAIN d |-> IF c \in S THEN v ELSE d[c]]

VARIABLES
    activeFile, history,
    quizQuestions, incorrectAnswers, currentQuestionIndex, score, isReviewingMistakes,
    flashcards, currentCardIndex, knownCardsCount,
    hidden, disabled, quizOptions, isFlipped,
    questionValue, answerText, quizLoadingStatus, gameLoadingStatus,
    exitGameLoadingBtnText, statusText, historyList,
    reqs, abortHandlers, loadingIntervals, quizTimers,
    db, dbStore, ops, txQueue, now,
    answered, putLog, marks, lastAction

quizVars == << quizQuestions, incorrectAnswers, currentQuestionIndex, score,
               isReviewingMistakes, quizOptions, answered >>
gameVars == << flashcards, currentCardIndex, knownCardsCount, isFlipped, marks >>
gameLoadVars == << abortHandlers, loadingIntervals, gameLoadingStatus,
                   exitGameLoadingBtnText >>
storeVars == << db, dbStore, ops, txQueue, putLog >>
fileVars == << activeFile, history, statusText, historyList >>
askVars == << questionValue, answerText >>

vars == << activeFile, history,
           quizQuestions, incorrectAnswers, currentQuestionIndex, score, isReviewingMistakes,
           flashcards, currentCardIndex, knownCardsCount,
           hidden, disabled, quizOptions, isFlipped,
           questionValue, answerText, quizLoadingStatus, gameLoadingStatus,
           exitGameLoadingBtnText, statusText, historyList,
           reqs, abortHandlers, loadingIntervals, quizTimers,
           db, dbStore, ops, txQueue, now,
           answered, putLog, marks, lastAction >>

ShownIn(h, e) == IF e = None THEN TRUE ELSE ~h[e]

\* under the classes h, the element and its containers (at most two levels)
\* are not hidden
DisplayedIn(h, e) ==
    /\ ShownIn(h, e)
    /\ ShownIn(h, Parent(e))
    /\ ShownIn(h, IF Parent(e) = None THEN None ELSE Parent(Parent(e)))

Displayed(e) == DisplayedIn(hidden, e)

Clickable(c) == ~disabled[c] /\ Displayed("qaSection")


\* ------------------------------------------------------------------ Init
ReqIds == 1..MaxReq

NoReq == [kind |-> None, st |-> None, mat |-> 0, aborted |-> FALSE, sent |-> 0]

OpIds == 0..MaxOps

NoOp == [kind |-> None, st |-> None, item |-> NoFile]

\* A record left in the store by an earlier visit of the page.
OldItem == [id |-> 0, timestamp |-> 0, content |-> "f0"]

NoOptions == [buttons |-> <<>>, correctAnswer |-> <<>>, disabled |-> FALSE]

\* The page after the script has run and the DOMContentLoaded handler has
\* reached its await: nothing is active, the start controls are disabled,
\* only the question panel is displayed, and the load of the history
\* (operation 0) waits for the open request of initDB.
Init ==
    /\ activeFile = NoFile
    /\ history = <<>>
    /\ quizQuestions = <<>>
    /\ incorrectAnswers = <<>>
    /\ currentQuestionIndex = 0
    /\ score = 0
    /\ isReviewingMistakes = FALSE
    /\ flashcards = <<>>
    /\ currentCardIndex = 0
    /\ knownCardsCount = 0
    /\ hidden = [e \in Sections |-> e # "qaSection"]
    /\ disabled = [c \in Controls |-> c \in StartControls]
    /\ quizOptions = NoOptions
    /\ isFlipped = FALSE
    /\ questionValue = <<>>
    /\ answerText = <<>>
    /\ quizLoadingStatus = ""
    /\ gameLoadingStatus = <<"none", 0>>
    /\ exitGameLoadingBtnText = "Cancel"
    /\ statusText = ""
    /\ historyList = <<>>
    /\ reqs = [r \in ReqIds |-> NoReq]
    /\ abortHandlers = {}
    /\ loadingIntervals = {}
    /\ quizTimers = 0
    /\ db = FALSE
    /\ dbStore \in { {}, {OldItem} }
    /\ ops = [o \in OpIds |-> IF o = 0 THEN [kind |-> "load", st |-> "init", item |-> NoFile]
                                       ELSE NoOp]
    /\ txQueue = <<>>
    /\ now = 1
    /\ answered = <<>>
    /\ putLog = IF dbStore = {} THEN <<>> ELSE <<OldItem>>
    /\ marks = <<>>
    /\ lastAction = "init"

\* -------------------------------------------------------------- requests
Outstanding == { r \in ReqIds : reqs[r].st \in {"pending", "stream"} }

Issued == { r \in ReqIds : reqs[r].st # None }

CanIssue == Issued # ReqIds

NextReq == CHOOSE r \in ReqIds \ Issued : \A q \in ReqIds \ Issued : r <= q

\* a guard that lets every click through
NoMaterialIgnored(f) == FALSE

\* !activeFile, the guard of the three start handlers
NoMaterial(f) == f = NoFile

\* the three start controls, set together by every handler
EnableStart(d, v) == SetDisabled(d, StartControls, ~v)

\* ------------------------------------------------------------------ quiz
IsCorrectStrict(selectedAnswer, correctAnswer) == selectedAnswer = correctAnswer

IsCorrect(selectedAnswer, correctAnswer) ==
    ToLowerCase(Trim(selectedAnswer)) = ToLowerCase(Trim(correctAnswer))

QuestionAt(qs, i) == IF i + 1 \in DOMAIN qs THEN qs[i + 1] ELSE UndefinedQuestion

\* a test that lets the index reach the length
HasNextOffByOne(i, walked) == i <= Len(walked)

\* currentQuestionIndex < length, after the increment
HasNext(i, walked) == i < Len(walked)

KeepOptionsEnabled(o) == o

DisableOptions(o) == [o EXCEPT !.disabled = TRUE]

\* score / quizQuestions.length < 0.6 in floating point: false for 0/0 (NaN),
\* and 3/5 is the same double as the literal 0.6
BelowPassMark(s, n) == n > 0 /\ 10 * s < 6 * n

ReviewOfferedHalf(s, qs, inc) == Len(qs) > 0 /\ 10 * s < 5 * Len(qs) /\ Len(inc) > 0

ReviewOffered(s, qs, inc) == BelowPassMark(s, Len(qs)) /\ Len(inc) > 0

\* a display that leaves 'next' as it was
displayCurrentQuestionClassKeepsNext(h, qs) ==
    IF Len(qs) = 0 THEN h ELSE SetClass(h, {}, {"scoreDisplayEl"})

displayCurrentQuestionClass(h, qs) ==
    IF Len(qs) = 0 THEN h ELSE SetClass(h, {"nextQuestionBtn"}, {"scoreDisplayEl"})

displayCurrentQuestionOptions(o, qs, i) ==
    IF Len(qs) = 0 THEN o
    ELSE [buttons |-> QuestionAt(qs, i).options,
          correctAnswer |-> QuestionAt(qs, i).correctAnswer,
          disabled |-> FALSE]

MistakeAt(inc, i) ==
    IF i + 1 \in DOMAIN inc THEN inc[i + 1]
    ELSE [question |-> UndefinedQuestion, selected |-> <<>>]

displayMistakeClass(h) == SetClass(h, {"scoreDisplayEl"}, {"nextQuestionBtn"})

\* a review whose option buttons can be clicked
displayMistakeOptionsEnabled(inc, i) ==
    [buttons |-> MistakeAt(inc, i).question.options,
     correctAnswer |-> MistakeAt(inc, i).question.correctAnswer,
     disabled |-> FALSE]

displayMistakeOptions(inc, i) ==
    [buttons |-> MistakeAt(inc, i).question.options,
     correctAnswer |-> MistakeAt(inc, i).question.correctAnswer,
     disabled |-> TRUE]

showResultsClass(h, s, qs, inc) ==
    IF ReviewOffered(s, qs, inc)
    THEN SetClass(h, {"quizSection"}, {"resultsSection", "reviewMistakesBtn"})
    ELSE SetClass(h, {"quizSection", "reviewMistakesBtn"}, {"resultsSection"})

finishReviewSuppressed(h, s, qs, inc) ==
    SetClass(h, {"quizSection", "reviewMistakesBtn"}, {"resultsSection"})

\* the end of the review in the nextQuestionBtn handler: showResults() again
finishReviewClass(h, s, qs, inc) == showResultsClass(h, s, qs, inc)

startQuizClass(h, qs) ==
    displayCurrentQuestionClass(
        SetClass(h, {"resultsSection", "reviewMistakesBtn", "quizLoadingContainer"},
                    {"quizSection", "quizContentContainer"}), qs)

\* a startQuiz() that keeps the mistake log of the previous run
startQuizKeepingLog(h, qs) ==
    /\ currentQuestionIndex' = 0
    /\ score' = 0
    /\ incorrectAnswers' = incorrectAnswers
    /\ isReviewingMistakes' = FALSE
    /\ hidden' = startQuizClass(h, qs)
    /\ quizOptions' = displayCurrentQuestionOptions(quizOptions, qs, 0)
    /\ answered' = <<>>

\* a startQuiz() that keeps the score of the previous run
startQuizKeepingScore(h, qs) ==
    /\ currentQuestionIndex' = 0
    /\ score' = score
    /\ incorrectAnswers' = <<>>
    /\ isReviewingMistakes' = FALSE
    /\ hidden' = startQuizClass(h, qs)
    /\ quizOptions' = displayCurrentQuestionOptions(quizOptions, qs, 0)
    /\ answered' = <<>>

\* startQuiz(): h is the class state and qs the question list at the call
startQuiz(h, qs) ==
    /\ currentQuestionIndex' = 0
    /\ score' = 0
    /\ incorrectAnswers' = <<>>
    /\ isReviewingMistakes' = FALSE
    /\ hidden' = startQuizClass(h, qs)
    /\ quizOptions' = displayCurrentQuestionOptions(quizOptions, qs, 0)
    /\ answered' = <<>>

handleOptionClick(i) ==
    /\ Displayed("quizContentContainer")
    /\ ~quizOptions.disabled
    /\ i \in DOMAIN quizOptions.buttons
    /\ LET selectedAnswer == quizOptions.buttons[i]
           correctAnswer == quizOptions.correctAnswer
           question == QuestionAt(quizQuestions, currentQuestionIndex)
       IN /\ IF IsCorrect(selectedAnswer, correctAnswer)
             THEN /\ score' = score + 1
                  /\ UNCHANGED incorrectAnswers
             ELSE /\ incorrectAnswers' =
                        Append(incorrectAnswers,
                               [question |-> question, selected |-> selectedAnswer])
                  /\ UNCHANGED score
          /\ answered' = Append(answered, [question |-> question,
                                           selected |-> selectedAnswer,
                                           correctAnswer |-> correctAnswer])
    /\ quizOptions' = DisableOptions(quizOptions)
    /\ hidden' = SetClass(hidden, {}, {"nextQuestionBtn"})
    /\ lastAction' = "handleOptionClick"
    /\ UNCHANGED << quizQuestions, currentQuestionIndex, isReviewingMistakes, gameVars,
                    disabled, askVars, quizLoadingStatus, gameLoadVars, fileVars, reqs,
                    quizTimers, storeVars, now >>

NextQuestionBtnClick ==
    /\ Displayed("nextQuestionBtn")
    /\ currentQuestionIndex' = currentQuestionIndex + 1
    /\ IF isReviewingMistakes
       THEN IF HasNext(currentQuestionIndex + 1, incorrectAnswers)
            THEN /\ hidden' = displayMistakeClass(hidden)
                 /\ quizOptions' = displayMistakeOptions(incorrectAnswers,
                                                         currentQuestionIndex + 1)
                 /\ UNCHANGED isReviewingMistakes
            ELSE /\ isReviewingMistakes' = FALSE
                 /\ hidden' = finishReviewClass(hidden, score, quizQuestions, incorrectAnswers)
                 /\ UNCHANGED quizOptions
       ELSE IF HasNext(currentQuestionIndex + 1, quizQuestions)
            THEN /\ hidden' = displayCurrentQuestionClass(hidden, quizQuestions)
                 /\ quizOptions' = displayCurrentQuestionOptions(quizOptions, quizQuestions,
                                                                 currentQuestionIndex + 1)
                 /\ UNCHANGED isReviewingMistakes
            ELSE /\ hidden' = showResultsClass(hidden, score, quizQuestions, incorrectAnswers)
                 /\ UNCHANGED << quizOptions, isReviewingMistakes >>
    /\ lastAction' = IF isReviewingMistakes THEN "nextMistake" ELSE "nextQuestion"
    /\ UNCHANGED << quizQuestions, incorrectAnswers, score, answered, gameVars,
                    disabled, askVars, quizLoadingStatus, gameLoadVars, fileVars, reqs,
                    quizTimers, storeVars, now >>

ReviewMistakesBtnClick ==
    /\ Displayed("reviewMistakesBtn")
    /\ isReviewingMistakes' = TRUE
    /\ currentQuestionIndex' = 0
    /\ hidden' = displayMistakeClass(
                    SetClass(hidden, {"resultsSection"},
                                     {"quizSection", "quizContentContainer"}))
    /\ quizOptions' = displayMistakeOptions(incorrectAnswers, 0)
    /\ lastAction' = "reviewMistakes"
    /\ UNCHANGED << quizQuestions, incorrectAnswers, score, answered, gameVars,
                    disabled, askVars, quizLoadingStatus, gameLoadVars, fileVars, reqs,
                    quizTimers, storeVars, now >>

RestartQuizBtnClick ==
    /\ Displayed("resultsSection")
    /\ startQuiz(hidden, quizQuestions)
    /\ lastAction' = "restartQuiz"
    /\ UNCHANGED << quizQuestions, gameVars,
                    disabled, askVars, quizLoadingStatus, gameLoadVars, fileVars, reqs,
                    quizTimers, storeVars, now >>

\* an exit that leaves the results panel shown
exitQuizClassStays(h) == SetClass(h, {}, {"qaSection"})

\* the panels set by the exitQuizBtn handler
exitQuizClass(h) == SetClass(h, {"resultsSection"}, {"qaSection"})

ExitQuizBtnClick ==
    /\ Displayed("resultsSection")
    /\ hidden' = exitQuizClass(hidden)
    /\ quizQuestions' = <<>>
    /\ incorrectAnswers' = <<>>
    /\ currentQuestionIndex' = 0
    /\ score' = 0
    /\ isReviewingMistakes' = FALSE
    /\ answered' = <<>>
    /\ lastAction' = "exitQuiz"
    /\ UNCHANGED << quizOptions, gameVars,
                    disabled, askVars, quizLoadingStatus, gameLoadVars, fileVars, reqs,
                    quizTimers, storeVars, now >>

StartQuizBtnClick ==
    /\ Clickable("startQuizBtn")
    /\ IF NoMaterial(activeFile)
       THEN /\ lastAction' = "startQuizNoFile"
            /\ UNCHANGED << hidden, disabled, quizLoadingStatus, reqs >>
       ELSE /\ CanIssue
            /\ hidden' = SetClass(hidden,
                                  {"qaSection", "answerSection", "quizContentContainer"},
                                  {"quizSection", "quizLoadingContainer"})
            /\ quizLoadingStatus' = "Generating quiz..."
            /\ disabled' = EnableStart(disabled, FALSE)
            /\ reqs' = [reqs EXCEPT ![NextReq] =
                          [kind |-> "quiz", st |-> "pending", mat |-> activeFile.id,
                           aborted |-> FALSE, sent |-> 0]]
            /\ lastAction' = "startQuizBtn"
    /\ UNCHANGED << quizVars, gameVars, askVars, gameLoadVars, fileVars,
                    quizTimers, storeVars, now >>

\* the continuation of the startQuizBtn handler after its await
QuizSettle(r, resp) ==
    /\ reqs[r].kind = "quiz" /\ reqs[r].st = "pending"
    /\ reqs' = [reqs EXCEPT ![r].st = "settled"]
    /\ IF resp.kind = "ok" /\ Len(resp.questions) > 0
       THEN /\ quizQuestions' = resp.questions
            /\ startQuiz(hidden, resp.questions)
            /\ lastAction' = "quizGenerated"
            /\ UNCHANGED << quizLoadingStatus, quizTimers >>
       ELSE /\ quizLoadingStatus' = "Could not generate a quiz."
            /\ quizTimers' = quizTimers + 1
            /\ lastAction' = "quizFailed"
            /\ UNCHANGED << quizVars, hidden >>
    /\ disabled' = EnableStart(disabled, TRUE)
    /\ UNCHANGED << gameVars, askVars, gameLoadVars, fileVars, storeVars, now >>

\* a callback that leaves the quiz panel shown
revertClassKeepsQuiz(h) == SetClass(h, {}, {"qaSection"})

\* the panels set by the setTimeout callback
revertClass(h) == SetClass(h, {"quizSection"}, {"qaSection"})

\* the setTimeout callback of a failed quiz generation
QuizRevertTimer ==
    /\ quizTimers > 0
    /\ quizTimers' = quizTimers - 1
    /\ hidden' = revertClass(hidden)
    /\ lastAction' = "quizRevertTimer"
    /\ UNCHANGED << quizVars, gameVars, disabled, askVars, quizLoadingStatus,
                    gameLoadVars, fileVars, reqs, storeVars, now >>


\* ------------------------------------------------------------ flashcards
\* one of the rotating loadingMessages; which one is not modelled
LoadingMessage == <<"msg", 0>>

NeverDiscard(aborted) == FALSE

\* controller.signal.aborted, read after the await and in the catch block
DiscardLate(aborted) == aborted

displayCurrentCardClass(h, cards, i) ==
    IF i >= Len(cards)
    THEN SetClass(h, {"gameContainer"}, {"gameResultsSection"})
    ELSE SetClass(h, {"gameControls"}, {})

displayCurrentCardFlipped(f, cards, i) == IF i >= Len(cards) THEN f ELSE FALSE

\* a startGame() that keeps the count of the previous run
startGameKeepingCount(h, cards) ==
    /\ currentCardIndex' = 0
    /\ knownCardsCount' = knownCardsCount
    /\ hidden' = displayCurrentCardClass(
                    SetClass(h, {"gameResultsSection"}, {"gameContainer"}), cards, 0)
    /\ isFlipped' = displayCurrentCardFlipped(isFlipped, cards, 0)
    /\ marks' = <<>>

\* startGame(): h is the class state and cards the deck at the call
startGame(h, cards) ==
    /\ currentCardIndex' = 0
    /\ knownCardsCount' = 0
    /\ hidden' = displayCurrentCardClass(
                    SetClass(h, {"gameResultsSection"}, {"gameContainer"}), cards, 0)
    /\ isFlipped' = displayCurrentCardFlipped(isFlipped, cards, 0)
    /\ marks' = <<>>

\* an advance that passes over a card
advanceCardByTwo ==
    /\ currentCardIndex' = currentCardIndex + 2
    /\ hidden' = displayCurrentCardClass(hidden, flashcards, currentCardIndex + 2)
    /\ isFlipped' = displayCurrentCardFlipped(isFlipped, flashcards, currentCardIndex + 2)

advanceCard ==
    /\ currentCardIndex' = currentCardIndex + 1
    /\ hidden' = displayCurrentCardClass(hidden, flashcards, currentCardIndex + 1)
    /\ isFlipped' = displayCurrentCardFlipped(isFlipped, flashcards, currentCardIndex + 1)

\* a clearInterval that stops nothing
clearIntervalNot(running, R) == running

\* clearInterval(loadingInterval) of the generations R
clearInterval(running, R) == running \ R

StartGameBtnClick ==
    /\ Clickable("startGameBtn")
    /\ IF NoMaterial(activeFile)
       THEN /\ lastAction' = "startGameNoFile"
            /\ UNCHANGED << hidden, disabled, reqs, gameLoadVars >>
       ELSE /\ CanIssue
            /\ hidden' = SetClass(hidden,
                                  {"qaSection", "answerSection", "gameContainer",
                                   "gameResultsSection"},
                                  {"gameSection", "gameLoadingContainer"})
            /\ disabled' = EnableStart(disabled, FALSE)
            /\ exitGameLoadingBtnText' = "Cancel"
            /\ gameLoadingStatus' = LoadingMessage
            /\ loadingIntervals' = loadingIntervals \cup {NextReq}
            /\ abortHandlers' = abortHandlers \cup {NextReq}
            /\ reqs' = [reqs EXCEPT ![NextReq] =
                          [kind |-> "game", st |-> "pending", mat |-> activeFile.id,
                           aborted |-> FALSE, sent |-> 0]]
            /\ lastAction' = "startGameBtn"
    /\ UNCHANGED << quizVars, gameVars, askVars, quizLoadingStatus, fileVars,
                    quizTimers, storeVars, now >>

\* the setInterval callback of the generation r
LoadingIntervalTick(r) ==
    /\ r \in loadingIntervals
    /\ gameLoadingStatus' = LoadingMessage
    /\ lastAction' = "loadingTick"
    /\ UNCHANGED << quizVars, gameVars, hidden, disabled, askVars, quizLoadingStatus,
                    abortHandlers, loadingIntervals, exitGameLoadingBtnText, fileVars,
                    reqs, quizTimers, storeVars, now >>

\* A click on exitGameLoadingBtn runs every abortHandler still attached;
\* each was added with {once: true} and is removed by the click.
ExitGameLoadingBtnClick ==
    /\ Displayed("gameLoadingContainer")
    /\ reqs' = [r \in ReqIds |-> IF r \in abortHandlers
                                 THEN [reqs[r] EXCEPT !.aborted = TRUE] ELSE reqs[r]]
    /\ loadingIntervals' = clearInterval(loadingIntervals, abortHandlers)
    /\ abortHandlers' = {}
    /\ IF abortHandlers # {}
       THEN /\ hidden' = SetClass(hidden, {"gameLoadingContainer", "gameSection"},
                                          {"qaSection"})
            /\ disabled' = EnableStart(disabled, TRUE)
       ELSE UNCHANGED << hidden, disabled >>
    /\ lastAction' = "exitGameLoadingBtn"
    /\ UNCHANGED << quizVars, gameVars, askVars, quizLoadingStatus,
                    gameLoadingStatus, exitGameLoadingBtnText, fileVars,
                    quizTimers, storeVars, now >>

\* a failure that leaves the loading message in place
GameErrorTextKeepsMessage(resp) == LoadingMessage

GameErrorText(resp) ==
    CASE resp.kind = "reject" -> <<"error", 1>>
      [] resp.kind = "badjson" -> <<"error", 2>>
      [] OTHER -> <<"error", 3>>

\* the continuation of the startGameBtn handler after its await
GameSettle(r, resp) ==
    /\ reqs[r].kind = "game" /\ reqs[r].st = "pending"
    /\ reqs' = [reqs EXCEPT ![r].st = "settled"]
    /\ IF DiscardLate(reqs[r].aborted)
       THEN /\ lastAction' = "gameDiscarded"
            /\ UNCHANGED << gameVars, hidden, gameLoadVars >>
       ELSE IF resp.kind = "ok" /\ Len(resp.flashcards) > 0
            THEN /\ loadingIntervals' = clearInterval(loadingIntervals, {r})
                 /\ abortHandlers' = abortHandlers \ {r}
                 /\ flashcards' = resp.flashcards
                 /\ startGame(SetClass(hidden, {"gameLoadingContainer"}, {"gameContainer"}),
                              resp.flashcards)
                 /\ lastAction' = "gameGenerated"
                 /\ UNCHANGED << gameLoadingStatus, exitGameLoadingBtnText >>
            ELSE /\ loadingIntervals' = clearInterval(loadingIntervals, {r})
                 /\ abortHandlers' = IF resp.kind = "reject" THEN abortHandlers
                                      ELSE abortHandlers \ {r}
                 /\ gameLoadingStatus' = GameErrorText(resp)
                 /\ exitGameLoadingBtnText' = "Exit"
                 /\ lastAction' = "gameFailed"
                 /\ UNCHANGED << gameVars, hidden >>
    /\ UNCHANGED << quizVars, disabled, askVars, quizLoadingStatus, fileVars,
                    quizTimers, storeVars, now >>

\* a toggle that never hides the controls again
flipClassShowOnly(h, f) == SetClass(h, {}, {"gameControls"})

\* the controls follow the flipped face: f is the face before the toggle
flipClass(h, f) == IF ~f THEN SetClass(h, {}, {"gameControls"})
                        ELSE SetClass(h, {"gameControls"}, {})

FlashcardContainerClick ==
    /\ Displayed("gameContainer")
    /\ isFlipped' = ~isFlipped
    /\ hidden' = flipClass(hidden, isFlipped)
    /\ lastAction' = "flip"
    /\ UNCHANGED << quizVars, flashcards, currentCardIndex, knownCardsCount, marks, disabled,
                    askVars, quizLoadingStatus, gameLoadVars, fileVars, reqs,
                    quizTimers, storeVars, now >>

KnewItBtnClick ==
    /\ Displayed("gameControls")
    /\ knownCardsCount' = knownCardsCount + 1
    /\ advanceCard
    /\ marks' = Append(marks, "knew")
    /\ lastAction' = "knewIt"
    /\ UNCHANGED << quizVars, flashcards, disabled,
                    askVars, quizLoadingStatus, gameLoadVars, fileVars, reqs,
                    quizTimers, storeVars, now >>

DidntKnowBtnClick ==
    /\ Displayed("gameControls")
    /\ advanceCard
    /\ marks' = Append(marks, "didnt")
    /\ lastAction' = "didntKnow"
    /\ UNCHANGED << quizVars, flashcards, knownCardsCount, disabled,
                    askVars, quizLoadingStatus, gameLoadVars, fileVars, reqs,
                    quizTimers, storeVars, now >>

RestartGameBtnClick ==
    /\ Displayed("gameResultsSection")
    /\ startGame(hidden, flashcards)
    /\ lastAction' = "restartGame"
    /\ UNCHANGED << quizVars, flashcards, disabled,
                    askVars, quizLoadingStatus, gameLoadVars, fileVars, reqs,
                    quizTimers, storeVars, now >>

ExitGameBtnClick ==
    /\ Displayed("gameResultsSection")
    /\ hidden' = SetClass(hidden, {"gameSection"}, {"qaSection"})
    /\ flashcards' = <<>>
    /\ disabled' = EnableStart(disabled, TRUE)
    /\ lastAction' = "exitGame"
    /\ UNCHANGED << quizVars, currentCardIndex, knownCardsCount, isFlipped, marks,
                    askVars, quizLoadingStatus, gameLoadVars, fileVars, reqs,
                    quizTimers, storeVars, now >>


\* ------------------------------------------------------------------- ask
QuestionTexts == { <<>>, <<" ">>, <<"q", " ">> }

Chunk(r, k) == [kind |-> "chunk", r |-> r, k |-> k]

ErrorNotice(r) == [kind |-> "error", r |-> r, k |-> 0]

AskErrorTextAppended(text, r) == text \o <<ErrorNotice(r)>>

\* answerEl.textContent = "An error occurred ..." + message
AskErrorText(text, r) == <<ErrorNotice(r)>>

\* answerEl.textContent += chunk.text
appendChunk(text, c) == text \o <<c>>

QuestionInput(v) ==
    /\ Displayed("qaSection")
    /\ ~disabled["questionInput"]
    /\ v \in QuestionTexts
    /\ v # questionValue
    /\ questionValue' = v
    /\ lastAction' = "questionInput"
    /\ UNCHANGED << quizVars, gameVars, hidden, disabled, answerText, quizLoadingStatus,
                    gameLoadVars, fileVars, reqs, quizTimers, storeVars, now >>

AskBtnClick ==
    /\ Clickable("askBtn")
    /\ IF NoMaterial(activeFile)
       THEN /\ lastAction' = "askNoFile"
            /\ UNCHANGED << hidden, disabled, answerText, reqs >>
       ELSE IF Trim(questionValue) = <<>>
       THEN /\ lastAction' = "askEmpty"
            /\ UNCHANGED << hidden, disabled, answerText, reqs >>
       ELSE /\ CanIssue
            /\ hidden' = SetClass(hidden, {}, {"answerSection"})
            /\ answerText' = <<>>
            /\ disabled' = SetDisabled(disabled, Controls, TRUE)
            /\ reqs' = [reqs EXCEPT ![NextReq] =
                          [kind |-> "ask", st |-> "pending", mat |-> activeFile.id,
                           aborted |-> FALSE, sent |-> 0]]
            /\ lastAction' = "askBtn"
    /\ UNCHANGED << quizVars, gameVars, questionValue, quizLoadingStatus, gameLoadVars,
                    fileVars, quizTimers, storeVars, now >>

\* generateContentStream resolves: the handler starts to iterate the stream
AskStreamOpen(r) ==
    /\ reqs[r].kind = "ask" /\ reqs[r].st = "pending"
    /\ reqs' = [reqs EXCEPT ![r].st = "stream"]
    /\ lastAction' = "askStreamOpen"
    /\ UNCHANGED << quizVars, gameVars, hidden, disabled, askVars, quizLoadingStatus,
                    gameLoadVars, fileVars, quizTimers, storeVars, now >>

AskChunk(r) ==
    /\ reqs[r].kind = "ask" /\ reqs[r].st = "stream"
    /\ reqs[r].sent < MaxChunks
    /\ answerText' = appendChunk(answerText, Chunk(r, reqs[r].sent + 1))
    /\ reqs' = [reqs EXCEPT ![r].sent = reqs[r].sent + 1]
    /\ lastAction' = "askChunk"
    /\ UNCHANGED << quizVars, gameVars, hidden, disabled, questionValue, quizLoadingStatus,
                    gameLoadVars, fileVars, quizTimers, storeVars, now >>

\* the stream closes: only the finally block runs
AskStreamEnd(r) ==
    /\ reqs[r].kind = "ask" /\ reqs[r].st = "stream"
    /\ reqs' = [reqs EXCEPT ![r].st = "settled"]
    /\ disabled' = SetDisabled(disabled, Controls, FALSE)
    /\ lastAction' = "askDone"
    /\ UNCHANGED << quizVars, gameVars, hidden, askVars, quizLoadingStatus,
                    gameLoadVars, fileVars, quizTimers, storeVars, now >>

\* generateContentStream rejects, or the stream throws while it is iterated
AskFail(r) ==
    /\ reqs[r].kind = "ask" /\ reqs[r].st \in {"pending", "stream"}
    /\ reqs' = [reqs EXCEPT ![r].st = "settled"]
    /\ answerText' = AskErrorText(answerText, r)
    /\ disabled' = SetDisabled(disabled, Controls, FALSE)
    /\ lastAction' = "askFailed"
    /\ UNCHANGED << quizVars, gameVars, hidden, questionValue, quizLoadingStatus,
                    gameLoadVars, fileVars, quizTimers, storeVars, now >>

\* --------------------------------------------------------- history, store
Ids(items) == [i \in DOMAIN items |-> items[i].id]

\* renderHistory(): one list entry per history item, carrying its id
renderHistory(h) == Ids(h)

\* history.find(h => h.id === id): the first match
FindById(h, id) ==
    IF \E i \in DOMAIN h : h[i].id = id
    THEN h[CHOOSE i \in DOMAIN h : h[i].id = id /\ \A j \in 1..(i - 1) : h[j].id # id]
    ELSE NoFile

\* a put that never replaces
PutBeside(S, item) == S \cup {item}

\* store.put with keyPath 'id': insert or replace
Put(S, item) == { x \in S : x.id # item.id } \cup {item}

\* a clear that removes nothing
ClearNothing(S) == S

\* store.clear()
Clear(S) == {}

\* an order that puts the oldest first
BeforeOldestFirst(a, b) ==
    a.timestamp < b.timestamp \/ (a.timestamp = b.timestamp /\ a.id < b.id)

\* getAll() returns the records in key order; the sort is by timestamp,
\* newest first, and keeps the key order among equal timestamps
Before(a, b) == a.timestamp > b.timestamp \/ (a.timestamp = b.timestamp /\ a.id < b.id)

RECURSIVE SortNewestFirst(_)
SortNewestFirst(S) ==
    IF S = {} THEN <<>>
    ELSE LET first == CHOOSE x \in S : \A y \in S \ {x} : Before(x, y)
         IN <<first>> \o SortNewestFirst(S \ {first})

FreeOps == { o \in OpIds : ops[o].st = None }

NextOp == CHOOSE o \in FreeOps : \A q \in FreeOps : o <= q

\* f is fileInput.files[0] at the click, None when no file is chosen
ProcessBtnClick(f) ==
    /\ IF f = None
       THEN /\ statusText' = "Please select a file first!"
            /\ lastAction' = "processNoFile"
            /\ UNCHANGED ops
       ELSE /\ FreeOps # {}
            /\ statusText' = "Processing file..."
            /\ ops' = [ops EXCEPT ![NextOp] =
                         [kind |-> "upload", st |-> "read",
                          item |-> [id |-> 0, timestamp |-> 0, content |-> f]]]
            /\ lastAction' = "processBtn"
    /\ UNCHANGED << quizVars, gameVars, hidden, disabled, askVars, quizLoadingStatus,
                    gameLoadVars, activeFile, history, historyList, reqs,
                    quizTimers, db, dbStore, txQueue, putLog, now >>

\* initDB() as called by the operation o: resolved at once when db is set,
\* otherwise a new open request; then the operation creates its transaction
AfterInitDB(o, item) ==
    IF db
    THEN /\ ops' = [ops EXCEPT ![o].st = "txn", ![o].item = item]
         /\ txQueue' = Append(txQueue, o)
    ELSE /\ ops' = [ops EXCEPT ![o].st = "init", ![o].item = item]
         /\ UNCHANGED txQueue

\* the catch block of the processBtn handler
processCatch(o, msg) ==
    /\ activeFile' = NoFile
    /\ statusText' = msg
    /\ disabled' = EnableStart(disabled, FALSE)
    /\ UNCHANGED historyList

\* fileToBase64 settles; t is what Date.now() returns then, and s what
\* new Date() returns a few statements later: the same millisecond or the next
ReadDone(o, ok, t, s) ==
    /\ ops[o].kind = "upload" /\ ops[o].st = "read"
    /\ t \in now..MaxTime
    /\ s \in {t, t + 1} /\ s <= MaxTime
    /\ now' = s
    /\ IF ok
       THEN LET newHistoryItem == [id |-> t, timestamp |-> s,
                                   content |-> ops[o].item.content]
            IN /\ history' = <<newHistoryItem>> \o history
               /\ AfterInitDB(o, newHistoryItem)
               /\ lastAction' = "fileRead"
               /\ UNCHANGED << activeFile, statusText, disabled, historyList >>
       ELSE /\ processCatch(o, "Error reading or saving file.")
            /\ ops' = [ops EXCEPT ![o].st = "done"]
            /\ lastAction' = "fileReadFailed"
            /\ UNCHANGED << history, txQueue >>
    /\ UNCHANGED << quizVars, gameVars, hidden, askVars, quizLoadingStatus,
                    gameLoadVars, reqs, quizTimers, db, dbStore, putLog >>

ClearHistoryBtnClick(confirmed) ==
    /\ IF confirmed
       THEN /\ FreeOps # {}
            /\ IF db
               THEN /\ ops' = [ops EXCEPT ![NextOp] =
                                 [kind |-> "clear", st |-> "txn", item |-> NoFile]]
                    /\ txQueue' = Append(txQueue, NextOp)
               ELSE /\ ops' = [ops EXCEPT ![NextOp] =
                                 [kind |-> "clear", st |-> "init", item |-> NoFile]]
                    /\ UNCHANGED txQueue
            /\ lastAction' = "clearHistoryBtn"
       ELSE /\ lastAction' = "clearDeclined"
            /\ UNCHANGED << ops, txQueue >>
    /\ UNCHANGED << quizVars, gameVars, hidden, disabled, askVars, quizLoadingStatus,
                    gameLoadVars, fileVars, reqs, quizTimers, db, dbStore, putLog, now >>

\* a catch block of clearHistory that forgets the history
clearCatchForgets ==
    /\ statusText' = "Error clearing history."
    /\ history' = <<>>
    /\ activeFile' = NoFile
    /\ historyList' = renderHistory(<<>>)
    /\ UNCHANGED disabled

\* the catch block of clearHistory
clearCatch ==
    /\ statusText' = "Error clearing history."
    /\ UNCHANGED << activeFile, history, disabled, historyList >>

\* what the operation o does when its promise rejects
storeFailed(o, msg) ==
    CASE ops[o].kind = "upload" ->
            /\ processCatch(o, msg)
            /\ UNCHANGED history
      [] ops[o].kind = "clear" -> clearCatch
      [] OTHER ->
            /\ statusText' = "Could not load study history from the local database."
            /\ UNCHANGED << activeFile, history, disabled, historyList >>

\* the open request of initDB issued for the operation o settles
InitDBDone(o, ok) ==
    /\ ops[o].st = "init"
    /\ IF ok
       THEN /\ db' = TRUE
            /\ ops' = [ops EXCEPT ![o].st = "txn"]
            /\ txQueue' = Append(txQueue, o)
            /\ lastAction' = "dbOpened"
            /\ UNCHANGED << fileVars, disabled >>
       ELSE /\ storeFailed(o, "Error opening local study history database.")
            /\ ops' = [ops EXCEPT ![o].st = "done"]
            /\ lastAction' = "dbOpenFailed"
            /\ UNCHANGED << db, txQueue >>
    /\ UNCHANGED << quizVars, gameVars, hidden, askVars, quizLoadingStatus,
                    gameLoadVars, reqs, quizTimers, dbStore, putLog, now >>

\* The oldest transaction on the object store settles.
TransactionDone(ok) ==
    /\ txQueue # <<>>
    /\ LET o == Head(txQueue)
       IN /\ txQueue' = Tail(txQueue)
          /\ ops' = [ops EXCEPT ![o].st = "done"]
          /\ IF ~ok
             THEN /\ storeFailed(o, IF ops[o].kind = "upload"
                                    THEN "Error saving history item." ELSE "")
                  /\ lastAction' = "transactionFailed"
                  /\ UNCHANGED << dbStore, putLog >>
             ELSE CASE ops[o].kind = "upload" ->
                        /\ dbStore' = Put(dbStore, ops[o].item)
                        /\ putLog' = Append(putLog, ops[o].item)
                        /\ activeFile' = ops[o].item
                        /\ statusText' = "processed successfully!"
                        /\ disabled' = EnableStart(disabled, TRUE)
                        /\ historyList' = renderHistory(history)
                        /\ lastAction' = "uploadSaved"
                        /\ UNCHANGED history
                    [] ops[o].kind = "clear" ->
                        /\ dbStore' = Clear(dbStore)
                        /\ putLog' = <<>>
                        /\ history' = <<>>
                        /\ activeFile' = NoFile
                        /\ historyList' = renderHistory(<<>>)
                        /\ statusText' = "History cleared."
                        /\ disabled' = EnableStart(disabled, FALSE)
                        /\ lastAction' = "historyCleared"
                    [] OTHER ->
                        /\ history' = SortNewestFirst(dbStore)
                        /\ historyList' = renderHistory(SortNewestFirst(dbStore))
                        /\ lastAction' = "historyLoaded"
                        /\ UNCHANGED << dbStore, putLog, activeFile, statusText, disabled >>
    /\ UNCHANGED << quizVars, gameVars, hidden, askVars, quizLoadingStatus,
                    gameLoadVars, reqs, quizTimers, db, now >>

\* a reset that toggles the answer panel
itemClassToggle(h) ==
    IF h["answerSection"]
    THEN SetClass(h, {"quizSection", "resultsSection", "gameSection"},
                     {"qaSection", "answerSection"})
    ELSE SetClass(h, {"answerSection", "quizSection", "resultsSection", "gameSection"},
                     {"qaSection"})

\* the panels set by loadHistoryItem
itemClass(h) ==
    SetClass(h, {"answerSection", "quizSection", "resultsSection", "gameSection"},
                {"qaSection"})

\* a click on the i-th entry of the rendered history list
loadHistoryItem(i) ==
    /\ i \in DOMAIN historyList
    /\ LET item == FindById(history, historyList[i])
       IN IF item # NoFile
          THEN /\ activeFile' = item
               /\ statusText' = "Active material"
               /\ questionValue' = <<>>
               /\ hidden' = itemClass(hidden)
               /\ disabled' = EnableStart(disabled, TRUE)
               /\ historyList' = renderHistory(history)
          ELSE UNCHANGED << activeFile, statusText, questionValue, hidden, disabled,
                            historyList >>
    /\ lastAction' = "loadHistoryItem"
    /\ UNCHANGED << quizVars, gameVars, answerText, quizLoadingStatus, gameLoadVars,
                    history, reqs, quizTimers, storeVars, now >>

\* ------------------------------------------------------------------ Next
QuizActions ==
    \/ \E i \in 1..3 : handleOptionClick(i)
    \/ NextQuestionBtnClick
    \/ ReviewMistakesBtnClick
    \/ RestartQuizBtnClick
    \/ ExitQuizBtnClick
    \/ StartQuizBtnClick
    \/ \E r \in ReqIds, resp \in QuizResponses : QuizSettle(r, resp)
    \/ QuizRevertTimer

GameActions ==
    \/ StartGameBtnClick
    \/ \E r \in ReqIds : LoadingIntervalTick(r)
    \/ ExitGameLoadingBtnClick
    \/ \E r \in ReqIds, resp \in GameResponses : GameSettle(r, resp)
    \/ FlashcardContainerClick
    \/ KnewItBtnClick
    \/ DidntKnowBtnClick
    \/ RestartGameBtnClick
    \/ ExitGameBtnClick

AskActions ==
    \/ \E v \in QuestionTexts : QuestionInput(v)
    \/ AskBtnClick
    \/ \E r \in ReqIds : AskStreamOpen(r)
    \/ \E r \in ReqIds : AskChunk(r)
    \/ \E r \in ReqIds : AskStreamEnd(r)
    \/ \E r \in ReqIds : AskFail(r)

\* the store as every session uses it: the load at startup, and the
\* selection of a loaded material
HistoryActions ==
    \/ \E o \in OpIds, ok \in BOOLEAN : InitDBDone(o, ok)
    \/ \E ok \in BOOLEAN : TransactionDone(ok)
    \/ \E i \in 1..(MaxOps + 1) : loadHistoryItem(i)

UploadActions ==
    \/ \E f \in Files \cup {None} : ProcessBtnClick(f)
    \/ \E o \in OpIds, ok \in BOOLEAN, t, s \in 1..MaxTime : ReadDone(o, ok, t, s)
    \/ \E confirmed \in BOOLEAN : ClearHistoryBtnClick(confirmed)

Next == QuizActions \/ GameActions \/ AskActions \/ HistoryActions \/ UploadActions

Spec == Init /\ [][Next]_vars

\* A session: the user selects a material of the loaded history and uses the
\* question box, the quiz and the flashcards in any order and overlap; no
\* upload and no clear is started.
NextSession == QuizActions \/ GameActions \/ AskActions \/ HistoryActions

SpecSession == Init /\ [][NextSession]_vars

\* The history: materials are uploaded, selected and cleared, in any order
\* and overlap, and no request is sent to the service.
NextStore == HistoryActions \/ UploadActions

SpecStore == Init /\ [][NextStore]_vars

\* The start of the three flows while the history is cleared: questions are
\* asked, quizzes and flashcards are requested and settle, and the history
\* is selected from and cleared; no quiz or deck is walked.
NextStart ==
    \/ AskActions
    \/ HistoryActions
    \/ StartQuizBtnClick
    \/ \E r \in ReqIds, resp \in QuizResponses : QuizSettle(r, resp)
    \/ QuizRevertTimer
    \/ StartGameBtnClick
    \/ ExitGameLoadingBtnClick
    \/ \E r \in ReqIds, resp \in GameResponses : GameSettle(r, resp)
    \/ \E confirmed \in BOOLEAN : ClearHistoryBtnClick(confirmed)

SpecStart == Init /\ [][NextStart]_vars

\* Questions are asked while the file "f1" is uploaded, once or again.
NextAsk ==
    \/ AskActions
    \/ \E o \in OpIds, ok \in BOOLEAN : InitDBDone(o, ok)
    \/ \E ok \in BOOLEAN : TransactionDone(ok)
    \/ ProcessBtnClick("f1")
    \/ \E o \in OpIds, ok \in BOOLEAN, t, s \in 1..MaxTime : ReadDone(o, ok, t, s)

SpecAsk == Init /\ [][NextAsk]_vars


\* ---------------------------------------------------------------- claims
SameAnswer(a, b) == ToLowerCase(Trim(a)) = ToLowerCase(Trim(b))

AnsweredCorrectly == { i \in DOMAIN answered :
                         SameAnswer(answered[i].selected, answered[i].question.correctAnswer) }

RECURSIVE MistakesOf(_)
MistakesOf(sel) ==
    IF sel = <<>> THEN <<>>
    ELSE IF SameAnswer(Head(sel).selected, Head(sel).question.correctAnswer)
         THEN MistakesOf(Tail(sel))
         ELSE <<[question |-> Head(sel).question, selected |-> Head(sel).selected]>>
              \o MistakesOf(Tail(sel))

AllStartDisabled(d) == \A c \in StartControls : d[c]

AllStartEnabled(d) == \A c \in StartControls : ~d[c]

\* C1: after the selections of a quiz session (answered), score is the number
\* of selections equal to their question's correctAnswer once both are trimmed
\* and lower-cased, and the mistake log is the other selections, in order.
C1_ScoreCountsNormalisedMatches ==
    /\ score = Cardinality(AnsweredCorrectly)
    /\ incorrectAnswers = MistakesOf(answered)

\* one correct answer, given in another case and spacing than correctAnswer,
\* followed by one incorrect answer
C1_Witness ==
    /\ Len(answered) = 2
    /\ 1 \in AnsweredCorrectly
    /\ answered[1].selected # answered[1].question.correctAnswer
    /\ 2 \notin AnsweredCorrectly
    /\ score = 1
    /\ Len(incorrectAnswers) = 1

\* C2: a step that scores (score or the mistake log grows) starts with the
\* options enabled and leaves every option disabled; disabled options are
\* enabled again only for the next question or by a reset of the session, so
\* no second selection on a question can score; and the index grows by one
\* only in the handler of 'next'.
C2_OneScoringPerQuestion ==
    [][ /\ (score' > score \/ Len(incorrectAnswers') > Len(incorrectAnswers))
           => /\ ~quizOptions.disabled
              /\ quizOptions'.disabled
              /\ currentQuestionIndex' = currentQuestionIndex
              /\ score' + Len(incorrectAnswers') = score + Len(incorrectAnswers) + 1
        /\ (quizOptions.disabled /\ ~quizOptions'.disabled)
           => \/ currentQuestionIndex' = currentQuestionIndex + 1
              \/ (currentQuestionIndex' = 0 /\ score' = 0 /\ incorrectAnswers' = <<>>)
        /\ (currentQuestionIndex' = currentQuestionIndex + 1) => NextQuestionBtnClick
      ]_vars

C2_Witness ==
    /\ lastAction = "handleOptionClick"
    /\ quizOptions.disabled
    /\ Displayed("nextQuestionBtn")
    /\ score + Len(incorrectAnswers) = currentQuestionIndex + 1

\* C3: whenever the results panel is displayed, the review button is displayed
\* iff score / total < 0.6 and the mistake log is not empty.
C3_ReviewOfferedIffBelowPassMark ==
    Displayed("resultsSection") =>
        (Displayed("reviewMistakesBtn")
            <=> (10 * score < 6 * Len(quizQuestions) /\ incorrectAnswers # <<>>))

C3_Witness ==
    /\ Displayed("resultsSection")
    /\ Displayed("reviewMistakesBtn")
    /\ score = 1
    /\ Len(quizQuestions) = 2

\* C4 as stated: after 'next' on the last reviewed mistake the results are
\* shown with the review button suppressed.
C4_ReviewSuppressedAfterReview ==
    (lastAction = "nextMistake" /\ ~isReviewingMistakes)
        => (Displayed("resultsSection") /\ ~Displayed("reviewMistakesBtn"))

\* C4 amended: after 'next' on the last reviewed mistake the results are shown
\* again and the review button is offered again, the score and the mistake log
\* being what they were when the review was offered.
C4_ReviewOfferedAgainAfterReview ==
    (lastAction = "nextMistake" /\ ~isReviewingMistakes)
        => /\ Displayed("resultsSection")
           /\ ~Displayed("quizSection")
           /\ Displayed("reviewMistakesBtn")
           /\ 10 * score < 6 * Len(quizQuestions)
           /\ incorrectAnswers # <<>>
           /\ currentQuestionIndex = Len(incorrectAnswers)

C4_Witness ==
    /\ lastAction = "nextMistake"
    /\ ~isReviewingMistakes
    /\ Displayed("resultsSection")
    /\ Len(incorrectAnswers) = 2

\* C5 as stated: the restart of the quiz issues a new generateQuiz request.
C5_RestartFetchesNewQuiz ==
    [][ lastAction' = "restartQuiz"
        => \E r \in ReqIds : /\ reqs[r].st = None
                             /\ reqs'[r].kind = "quiz"
                             /\ reqs'[r].st = "pending" ]_vars

\* C5 amended: the restart of the quiz resets the session (index 0, score 0,
\* empty mistake log, review mode off) and presents the first question of the
\* same question list, and issues no gateway request.
C5_RestartReusesQuestions ==
    [][ lastAction' = "restartQuiz"
        => /\ reqs' = reqs
           /\ quizQuestions' = quizQuestions
           /\ quizQuestions # <<>>
           /\ currentQuestionIndex' = 0
           /\ score' = 0
           /\ incorrectAnswers' = <<>>
           /\ ~isReviewingMistakes'
           /\ quizOptions' = [buttons |-> quizQuestions[1].options,
                              correctAnswer |-> quizQuestions[1].correctAnswer,
                              disabled |-> FALSE]
           /\ DisplayedIn(hidden', "quizContentContainer")
           /\ ~DisplayedIn(hidden', "resultsSection") ]_vars

C5_Witness ==
    /\ lastAction = "restartQuiz"
    /\ Len(quizQuestions) = 2
    /\ Outstanding = {}
    /\ Displayed("quizContentContainer")

\* C6: a click on cancel while a flashcard request is in flight shows the
\* question panel, hides the game panel and enables the start controls; and
\* when a cancelled request settles, the deck, the card counters, the panels
\* and the loading texts stay as they are.
C6_CancelledGenerationIsDiscarded ==
    [][ /\ (lastAction' = "exitGameLoadingBtn"
            /\ \E r \in ReqIds : reqs[r].kind = "game" /\ reqs[r].st = "pending"
                                 /\ ~reqs[r].aborted)
           => /\ DisplayedIn(hidden', "qaSection")
              /\ ~DisplayedIn(hidden', "gameSection")
              /\ AllStartEnabled(disabled')
        /\ \A r \in ReqIds :
             (reqs[r].kind = "game" /\ reqs[r].aborted
              /\ reqs[r].st = "pending" /\ reqs'[r].st = "settled")
             => UNCHANGED << flashcards, currentCardIndex, knownCardsCount, isFlipped,
                             hidden, disabled, gameLoadingStatus, exitGameLoadingBtnText >>
      ]_vars

C6_Witness ==
    /\ lastAction = "gameDiscarded"
    /\ flashcards = <<>>
    /\ Displayed("qaSection")
    /\ \E r \in ReqIds : reqs[r].kind = "game" /\ reqs[r].aborted /\ reqs[r].st = "settled"

\* C7 as stated: in the loading panel that shows the error of an empty or
\* invalid result, a click on the control labelled 'Exit' shows the question
\* panel and enables the start controls.
C7_ExitAfterInvalidResultLeavesLoading ==
    [][ (lastAction' = "exitGameLoadingBtn"
         /\ exitGameLoadingBtnText = "Exit"
         /\ gameLoadingStatus \in { <<"error", 2>>, <<"error", 3>> })
        => /\ DisplayedIn(hidden', "qaSection")
           /\ AllStartEnabled(disabled') ]_vars

C9_AtMostOneRequestOutstanding == Cardinality(Outstanding) <= 1

\* C10 as stated: while a gateway request is outstanding, the ask, start-quiz
\* and start-flashcards controls are all disabled.
C10_StartControlsDisabledWhileOutstanding ==
    Outstanding # {} => AllStartDisabled(disabled)


\* ------------------------------------------------------- claims, store
\* the step ends the operation o of the given kind with a rejection
Rejects(o, kind) ==
    /\ ops[o].kind = kind
    /\ ops[o].st \in {"init", "txn"}
    /\ ops'[o].st = "done"
    /\ lastAction' \in {"transactionFailed", "dbOpenFailed"}

Range(f) == { f[i] : i \in DOMAIN f }

\* C11 as stated: when the put of an uploaded material is rejected, the
\* active material is the one it was, and the material, absent from the
\* store, is not in the history.
C11_FailedPutLeavesMemoryUntouched ==
    [][ \A o \in OpIds :
          Rejects(o, "upload")
          => /\ activeFile' = activeFile
             /\ ops[o].item \notin dbStore' => ops[o].item \notin Range(history') ]_vars

\* C12: when the clear of the store is rejected, the history, the active
\* material, the rendered list, the start controls and the store are left
\* as they were, and the status line shows the error.
C12_FailedClearLeavesMemoryUntouched ==
    [][ \A o \in OpIds :
          Rejects(o, "clear")
          => /\ history' = history
             /\ activeFile' = activeFile
             /\ historyList' = historyList
             /\ disabled' = disabled
             /\ dbStore' = dbStore
             /\ statusText' = "Error clearing history." ]_vars

C12_Witness ==
    /\ lastAction = "transactionFailed"
    /\ \E o \in OpIds : ops[o].kind = "clear" /\ ops[o].st = "done"
    /\ statusText = "Error clearing history."
    /\ Len(history) = 2
    /\ activeFile # NoFile

\* C13: when a confirmed clear succeeds, a listing of the store is empty,
\* the history is empty, no material is active and the three start controls
\* are disabled.
C13_ClearEmptiesStoreAndMemory ==
    [][ lastAction' = "historyCleared"
        => /\ SortNewestFirst(dbStore') = <<>>
           /\ history' = <<>>
           /\ historyList' = <<>>
           /\ activeFile' = NoFile
           /\ AllStartDisabled(disabled') ]_vars

C13_Witness ==
    /\ lastAction = "historyCleared"
    /\ \E o \in OpIds : ops[o].kind = "clear" /\ ops[o].st = "done"
    /\ \E o \in OpIds : ops[o].kind = "upload" /\ ops[o].st = "done"
    /\ ops[0].st = "done"
    /\ dbStore = {}
    /\ activeFile = NoFile

\* the records a listing has to return: for every id, the last one put
LastPuts ==
    { putLog[i] : i \in { k \in DOMAIN putLog :
                            \A j \in DOMAIN putLog : j > k => putLog[j].id # putLog[k].id } }

\* C14: after any sequence of successful puts without a clear, a listing of
\* the store returns one record per id, the last one put for the id, newest
\* first, and nothing when nothing was put.
C14_ListAllIsLastPutsNewestFirst ==
    /\ \A x, y \in dbStore : x.id = y.id => x = y
    /\ dbStore = LastPuts
    /\ LET l == SortNewestFirst(dbStore)
       IN /\ Len(l) = Cardinality(LastPuts)
          /\ Range(l) = LastPuts
          /\ \A i, j \in DOMAIN l : i < j => l[i].timestamp >= l[j].timestamp
          /\ putLog = <<>> => l = <<>>

C14_Witness ==
    /\ Len(putLog) = 3
    /\ putLog[2].id = putLog[3].id
    /\ putLog[2].content # putLog[3].content
    /\ Cardinality(dbStore) = 2
    /\ putLog[3] \in dbStore

\* C15 as stated: at most one open request of the store is pending at any
\* time, whatever number of operations have begun before the store is open.
C15_SingleOpenRequest ==
    Cardinality({ o \in OpIds : ops[o].st = "init" }) <= 1


\* ------------------------------------------------ claims, indexes, guards
\* the sequence the quiz index walks
Walked == IF isReviewingMistakes THEN incorrectAnswers ELSE quizQuestions

NoUndefinedRead ==
    /\ \A i \in DOMAIN answered : answered[i].question # UndefinedQuestion
    /\ \A i \in DOMAIN incorrectAnswers : incorrectAnswers[i].question # UndefinedQuestion

\* C16 as stated: the quiz index is within [0, length] of the walked
\* sequence, it equals the length of a non-empty question list only while
\* the results panel is displayed, and no entry is read beyond the end.
C16_IndexEqualsLengthOnlyInResults ==
    /\ currentQuestionIndex \in 0..Len(Walked)
    /\ (Len(quizQuestions) > 0 /\ currentQuestionIndex = Len(Walked))
          => Displayed("resultsSection")
    /\ NoUndefinedRead

\* C16 amended: the quiz index is within [0, length] of the walked sequence;
\* while a question or a mistake is presented it is below the length, so no
\* entry is read beyond the end; it equals the length only while none is
\* presented, which is in Results and in every state that follows Results
\* without a restart, an exit or a new quiz.
C16_IndexBelowLengthWhilePresenting ==
    /\ currentQuestionIndex \in 0..Len(Walked)
    /\ Displayed("quizContentContainer") => currentQuestionIndex < Len(Walked)
    /\ NoUndefinedRead

C16_Witness ==
    /\ lastAction = "loadHistoryItem"
    /\ Len(quizQuestions) = 2
    /\ currentQuestionIndex = 2
    /\ Len(answered) = 2
    /\ Displayed("qaSection")
    /\ ~Displayed("resultsSection")

\* C17 as stated: currentCardIndex is within [0, flashcards.length] in every
\* reachable state.
C17_CardIndexWithinDeck == currentCardIndex \in 0..Len(flashcards)

\* a click on one of the three start controls
StartClick ==
    lastAction' \in {"askBtn", "askNoFile", "askEmpty", "startQuizBtn", "startQuizNoFile",
                     "startGameBtn", "startGameNoFile"}

AskClick == lastAction' \in {"askBtn", "askNoFile", "askEmpty"}

\* C18: a click on a start control while no material is active, and a click
\* on ask while the question is blank after trimming, issue no request and
\* change neither the quiz, the deck, the counters, the active material nor
\* the panels.
C18_GuardedStartChangesNothing ==
    [][ (StartClick /\ (activeFile = NoFile \/ (AskClick /\ Trim(questionValue) = <<>>)))
        => /\ reqs' = reqs
           /\ quizVars' = quizVars
           /\ gameVars' = gameVars
           /\ activeFile' = activeFile
           /\ history' = history
           /\ hidden' = hidden
           /\ disabled' = disabled
           /\ answerText' = answerText ]_vars

C18_Witness ==
    /\ lastAction = "startQuizNoFile"
    /\ activeFile = NoFile
    /\ ~disabled["startQuizBtn"]
    /\ Issued # ReqIds

C20_FirstQuestionEnteredReset ==
    [][ lastAction' \in {"quizGenerated", "restartQuiz"}
        => /\ score' = 0
           /\ incorrectAnswers' = <<>>
           /\ currentQuestionIndex' = 0
           /\ ~isReviewingMistakes'
           /\ quizQuestions' # <<>>
           /\ quizOptions'.buttons = quizQuestions'[1].options
           /\ ~quizOptions'.disabled
           /\ DisplayedIn(hidden', "quizContentContainer") ]_vars

C20_Witness ==
    /\ lastAction = "quizGenerated"
    /\ Cardinality({ r \in ReqIds : reqs[r].kind = "quiz" /\ reqs[r].st = "settled" }) = 2
    /\ score = 0
    /\ incorrectAnswers = <<>>
    /\ Displayed("quizContentContainer")


C22_ExitDiscardsQuiz ==
    [][ lastAction' = "exitQuiz"
        => /\ quizQuestions' = <<>>
           /\ incorrectAnswers' = <<>>
           /\ score' = 0
           /\ currentQuestionIndex' = 0
           /\ ~isReviewingMistakes'
           /\ DisplayedIn(hidden', "qaSection")
           /\ ~DisplayedIn(hidden', "resultsSection")
           /\ reqs' = reqs ]_vars

C22_Witness ==
    /\ lastAction = "exitQuiz"
    /\ quizQuestions = <<>>
    /\ Displayed("qaSection")
    /\ \E r \in ReqIds : reqs[r].kind = "quiz" /\ reqs[r].st = "settled"
    /\ Outstanding = {}

\* C23: the restart of the flashcard results keeps the deck, sets
\* currentCardIndex and knownCardsCount to 0, presents the first card
\* unrevealed and issues no request; the exit empties the deck and issues
\* no request.
C23_RestartRerunsDeckExitDiscards ==
    [][ /\ lastAction' = "restartGame"
           => /\ flashcards' = flashcards
              /\ flashcards # <<>>
              /\ currentCardIndex' = 0
              /\ knownCardsCount' = 0
              /\ ~isFlipped'
              /\ DisplayedIn(hidden', "gameContainer")
              /\ ~DisplayedIn(hidden', "gameControls")
              /\ ~DisplayedIn(hidden', "gameResultsSection")
              /\ reqs' = reqs
        /\ lastAction' = "exitGame"
           => /\ flashcards' = <<>>
              /\ ~DisplayedIn(hidden', "gameSection")
              /\ reqs' = reqs ]_vars

C23_Witness ==
    /\ lastAction = "restartGame"
    /\ Len(flashcards) = 2
    /\ currentCardIndex = 0
    /\ knownCardsCount = 0
    /\ Displayed("gameContainer")

KnewIn(m) == { i \in DOMAIN m : m[i] = "knew" }

\* C24: 'knew it' and 'didn't know' advance the card index by exactly 1 and
\* leave the next card unrevealed, only 'knew it' adds 1 to knownCardsCount;
\* after every step, while a deck is played the index is the number of cards
\* marked and knownCardsCount the number marked known, and in the results
\* every card of the deck has been presented once.
C24_CountsMatchMarks ==
    [][ /\ lastAction' \in {"knewIt", "didntKnow"}
           => /\ currentCardIndex' = currentCardIndex + 1
              /\ knownCardsCount' = knownCardsCount
                                      + (IF lastAction' = "knewIt" THEN 1 ELSE 0)
              /\ currentCardIndex' < Len(flashcards)
                    => /\ ~isFlipped'
                       /\ ~DisplayedIn(hidden', "gameControls")
                       /\ DisplayedIn(hidden', "gameContainer")
              /\ flashcards' = flashcards
        /\ (DisplayedIn(hidden', "gameContainer") \/ DisplayedIn(hidden', "gameResultsSection"))
           => /\ currentCardIndex' = Len(marks')
              /\ knownCardsCount' = Cardinality(KnewIn(marks'))
        /\ DisplayedIn(hidden', "gameResultsSection") => Len(marks') = Len(flashcards') ]_vars

C24_Witness ==
    /\ Displayed("gameResultsSection")
    /\ marks = <<"didnt", "knew">>
    /\ knownCardsCount = 1
    /\ Len(flashcards) = 2

\* C25: a click on the card changes the revealed face and the controls that
\* go with it and nothing else of the game and no request, and a second
\* click would give back the face and the panels the first one found.
C25_RevealIsReversible ==
    [][ lastAction' = "flip"
        => /\ isFlipped' = ~isFlipped
           /\ flashcards' = flashcards
           /\ currentCardIndex' = currentCardIndex
           /\ knownCardsCount' = knownCardsCount
           /\ reqs' = reqs
           /\ quizVars' = quizVars
           /\ DisplayedIn(hidden', "gameContainer")
           /\ flipClass(hidden', isFlipped') = hidden
           /\ \A e \in Sections \ {"gameControls"} : hidden'[e] = hidden[e] ]_vars

C25_Witness ==
    /\ lastAction = "flip"
    /\ ~isFlipped
    /\ Displayed("gameContainer")
    /\ ~Displayed("gameControls")
    /\ currentCardIndex = 1

\* C26: the interval of a flashcard generation runs only while its request
\* is pending and not cancelled, so no tick follows its success, failure or
\* cancellation.
C26_NoTickAfterSettle ==
    \A r \in loadingIntervals :
        /\ reqs[r].kind = "game"
        /\ reqs[r].st = "pending"
        /\ ~reqs[r].aborted

C26_Witness ==
    /\ lastAction = "gameFailed"
    /\ loadingIntervals = {}
    /\ \E r \in ReqIds : reqs[r].kind = "game" /\ reqs[r].st = "settled" /\ reqs[r].aborted
    /\ \E r \in ReqIds : reqs[r].kind = "game" /\ reqs[r].st = "settled" /\ ~reqs[r].aborted

\* C27 as stated: the quiz panel or the quiz results panel is never shown
\* together with the flashcard panel.
C27_QuizAndGameExclusive ==
    ~ ( (Displayed("quizSection") \/ Displayed("resultsSection"))
        /\ Displayed("gameSection") )

\* C28 as stated: a quiz that reaches its first question has QuizSize
\* questions and a deck that reaches its first card has DeckSize cards.
C28_BatchAcceptedAtContractedSize ==
    /\ lastAction = "quizGenerated" => Len(quizQuestions) = QuizSize
    /\ lastAction = "gameGenerated" => Len(flashcards) = DeckSize

\* C29 as stated: when the stream of an ask request ends without error, the
\* answer shown is the sequence of the chunks of that request, in the order
\* of their arrival, and nothing else.
C29_AnswerIsChunksInOrder ==
    [][ \A r \in ReqIds :
          (reqs[r].st = "stream" /\ reqs'[r].st = "settled" /\ lastAction' = "askDone")
          => answerText' = [k \in 1..reqs[r].sent |-> Chunk(r, k)] ]_vars

\* C30: a selection of the history item that the selection just before it
\* made active changes neither the active material, the question box, the
\* panels, the controls, the status line nor the rendered list.
C30_SelectTwiceIsIdempotent ==
    [][ (lastAction = "loadHistoryItem" /\ lastAction' = "loadHistoryItem"
           /\ activeFile # NoFile /\ activeFile' = activeFile)
        => /\ questionValue' = questionValue
           /\ questionValue = <<>>
           /\ hidden' = hidden
           /\ disabled' = disabled
           /\ statusText' = statusText
           /\ historyList' = historyList
           /\ Displayed("qaSection")
           /\ ~Displayed("answerSection") /\ ~Displayed("quizSection")
           /\ ~Displayed("resultsSection") /\ ~Displayed("gameSection")
           /\ AllStartEnabled(disabled) ]_vars

C30_Witness ==
    /\ lastAction = "loadHistoryItem"
    /\ activeFile # NoFile
    /\ questionValue = <<>>
    /\ \E r \in ReqIds : reqs[r].kind = "ask" /\ reqs[r].st = "settled"
    /\ ~Displayed("answerSection")
    /\ AllStartEnabled(disabled)

\* C31 as stated: whenever a selection from the history list makes a
\* material active, a record with the same id and the same content is in
\* the store at that moment.
C31_SelectedMaterialIsStored ==
    [][ (lastAction' = "loadHistoryItem" /\ activeFile' # activeFile)
        => \E x \in dbStore' : /\ x.id = activeFile'.id
                               /\ x.content = activeFile'.content ]_vars

\* the loading panel of the flashcards shows an error, and no other panel
\* is displayed
GameErrorShown ==
    /\ Displayed("gameLoadingContainer")
    /\ \A e \in {"qaSection", "quizSection", "resultsSection", "gameContainer",
                  "gameResultsSection"} : ~Displayed(e)
    /\ exitGameLoadingBtnText = "Exit"
    /\ gameLoadingStatus \in { <<"error", 1>>, <<"error", 2>>, <<"error", 3>> }

StoreQuiet ==
    /\ ops[0].st = "done"
    /\ \A o \in OpIds : ops[o].kind \in {"upload", "clear"} => ops[o].st = "done"

\* C33 as stated: whenever no upload and no clear is pending, the history
\* holds the ids of the records of the store and no others, and the active
\* material is 'none' or an entry of the history.
C33_HistoryMirrorsStoreWhenQuiet ==
    StoreQuiet
    => /\ { x.id : x \in Range(history) } = { x.id : x \in dbStore }
       /\ activeFile = NoFile \/ activeFile \in Range(history)

\* C34 as stated: whenever one of the three start controls is enabled, a
\* material is active.
C34_EnabledControlHasMaterial ==
    (\E c \in StartControls : ~disabled[c]) => activeFile # NoFile

\* C35 as stated: when the timer of a failed quiz generation fires after a
\* new quiz was started (the loading text was set again by the later click)
\* and while the quiz panel of that quiz is displayed, the quiz panel stays
\* displayed and the question panel is not shown beside it.
C35_RevertTimerSparesNewerQuiz ==
    [][ (lastAction' = "quizRevertTimer"
         /\ quizLoadingStatus = "Generating quiz..."
         /\ Displayed("quizSection"))
        => /\ DisplayedIn(hidden', "quizSection")
           /\ ~DisplayedIn(hidden', "qaSection") ]_vars

\* C36 as stated: when the result of a request starts a quiz or a flashcard
\* session, the material the request was issued for is the active material.
C36_SessionIsOfActiveMaterial ==
    [][ \A r \in ReqIds :
          (lastAction' \in {"quizGenerated", "gameGenerated"}
           /\ reqs[r].st = "pending" /\ reqs'[r].st = "settled")
          => /\ activeFile' # NoFile
             /\ reqs[r].mat = activeFile'.id ]_vars

\* a question of a quiz pass is presented
PresentingQuestion == Displayed("quizContentContainer") /\ ~isReviewingMistakes

\* C37: while a question of a quiz pass is presented, 'next' is displayed
\* exactly when the question has been answered, and score + mistake log
\* length is the index before the answer and the index plus 1 after it;
\* when 'next' of the last question shows the results, score + mistake log
\* length is the number of questions.
C37_NoQuestionSkipped ==
    /\ PresentingQuestion
       => /\ Displayed("nextQuestionBtn") <=> quizOptions.disabled
          /\ score + Len(incorrectAnswers)
               = currentQuestionIndex + (IF quizOptions.disabled THEN 1 ELSE 0)
          /\ Len(answered) = score + Len(incorrectAnswers)
    /\ (lastAction = "nextQuestion" /\ Displayed("resultsSection"))
       => /\ score + Len(incorrectAnswers) = Len(quizQuestions)
          /\ currentQuestionIndex = Len(quizQuestions)

C37_Witness ==
    /\ lastAction = "nextQuestion"
    /\ Displayed("resultsSection")
    /\ Len(quizQuestions) = 2
    /\ score = 1
    /\ Len(incorrectAnswers) = 1

\* newest first by timestamp, entries of one timestamp in any order
NewestFirst(h) == \A i, j \in DOMAIN h : i < j => h[i].timestamp >= h[j].timestamp

DistinctIds(h) == \A i, j \in DOMAIN h : i # j => h[i].id # h[j].id

\* C38 as stated: in every reachable state the history is ordered newest
\* first by timestamp, and its order is the one a listing of the same
\* records returns.
C38_HistoryInListAllOrder ==
    /\ NewestFirst(history)
    /\ DistinctIds(history) => history = SortNewestFirst(Range(history))

\* C38, amended: in every reachable state the history is ordered newest
\* first by timestamp, and any two of its entries of different timestamps
\* are in the order a listing returns them; it is the whole listing of its
\* records when no two of them have the same timestamp.
C38_HistoryNewestFirst ==
    /\ NewestFirst(history)
    /\ \A i, j \in DOMAIN history :
          (i < j /\ history[i].timestamp # history[j].timestamp)
          => Before(history[i], history[j])
    /\ (\A i, j \in DOMAIN history : i # j => history[i].timestamp # history[j].timestamp)
       => history = SortNewestFirst(Range(history))

C38_Witness ==
    /\ lastAction = "fileRead"
    /\ Len(history) = 3
    /\ history[1].timestamp > history[2].timestamp
    /\ history[2].timestamp > history[3].timestamp
    /\ \E o \in OpIds : ops[o].kind = "upload" /\ ops[o].st = "txn"

====
